---------------------------- MODULE Spec2Model ----------------------------
(***************************************************************************)
(* Authentication / session-issuance handlers of                           *)
(* backend/apps/web/routers/auths.py, over the user store.                 *)
(*                                                                         *)
(* A request is a frame that walks through its handler one store call at a *)
(* time (Step).  The sequential specifications run a frame to completion   *)
(* in one action (one handler = one action: the handlers are coroutines    *)
(* without a suspension point between their store calls).  The concurrent  *)
(* specification SpecConc interleaves the sign-ups of several worker       *)
(* processes that share the store, one store call per step: no lock or     *)
(* transaction spans the calls of a handler.                               *)
(***************************************************************************)
EXTENDS Integers, Sequences, FiniteSets, TLC

VARIABLES
    users,                              \* the user store: sequence of records, id = position
    ENABLE_SIGNUP,                      \* request.app.state.ENABLE_SIGNUP
    DEFAULT_USER_ROLE,                  \* request.app.state.DEFAULT_USER_ROLE
    WEBUI_AUTH_TRUSTED_EMAIL_HEADER,    \* config: trusted-header mode on/off
    WEBHOOK_URL,                        \* request.app.state.WEBHOOK_URL set or not
    frames,                             \* request slot -> frame of the request it handles
    issued                              \* history: per user id, the key the last successful
                                        \* createApiKey returned, 0 after deleteApiKey

vars == <<users, ENABLE_SIGNUP, DEFAULT_USER_ROLE, WEBUI_AUTH_TRUSTED_EMAIL_HEADER,
          WEBHOOK_URL, frames, issued>>

config == <<ENABLE_SIGNUP, DEFAULT_USER_ROLE, WEBUI_AUTH_TRUSTED_EMAIL_HEADER, WEBHOOK_URL>>

----------------------------------------------------------------------------
(* Bounds *)

\* number of concurrently handled requests in SpecConc
NumProcs == 2
\* distinct access tokens the identity provider hands out
NumTokens == 2
\* distinct values create_api_key() can draw
NumKeys == 2

----------------------------------------------------------------------------
(* Values *)

\* Strings are sequences of ASCII codes: 64 "@", 65 "A", 97 "a", 98 "b", 120 "x".
\* "a@x", "A@x", "b@x" and the malformed "ax".
Emails == { <<97, 64, 120>>, <<65, 64, 120>>, <<98, 64, 120>>, <<97, 120>> }

\* passwords that sign-up forms carry, and what a sign-in form may try
Passwords == {"pw1"}

SigninPasswords == Passwords \cup {"pw2"}

Roles == {"pending", "user", "admin"}

AccessTokens == 1..NumTokens

ApiKeys == 1..NumKeys

Slots == 1..NumProcs

\* str.lower()
lower(s) == [i \in 1..Len(s) |-> IF s[i] \in 65..90 THEN s[i] + 32 ELSE s[i]]

\* utils.misc.validate_email_format: a local part, one "@", a domain
validate_email_format(s) ==
    \E i \in 2..(Len(s) - 1) : s[i] = 64 /\ \A j \in 1..Len(s) : j # i => s[j] # 64

\* utils.utils.get_password_hash
get_password_hash(p) == <<"hash", p>>

\* str(uuid.uuid4()): a password no form ever carries
uuid4 == "uuid4"

\* json.dumps(sso_user.__dict__) after access_token was attached
json_dumps(sso_user) == <<"{", sso_user.email, sso_user.access_token, "}">>

\* utils.utils.create_token(data={"id": user.id}): the token carries its subject
create_token(id) == <<"jwt", id>>

NoToken == <<>>

\* a request header that is not sent
NoHeader == <<>>

\* the empty string as an extra_sso value
EmptyStr == <<>>

\* a str that lands in extra_sso
Str(s) == <<s>>

----------------------------------------------------------------------------
(* The user store (apps.web.models.users.Users, apps.web.models.auths.Auths) *)

\* Users.get_user_by_email: id of the first record with that email, 0 for None
get_user_by_email(us, email) ==
    IF \E i \in 1..Len(us) : us[i].email = email
    THEN CHOOSE i \in 1..Len(us) :
            us[i].email = email /\ \A j \in 1..(i - 1) : us[j].email # email
    ELSE 0

\* Users.get_num_users
get_num_users(us) == Len(us)

\* Auths.insert_new_auth(email, password, name, profile_image_url, extra_sso, role)
insert_new_auth(us, email, password, extra_sso, role) ==
    Append(us, [id |-> Len(us) + 1, email |-> email, password |-> password,
                role |-> role, extra_sso |-> extra_sso, api_key |-> 0])

\* Auths.authenticate_user: the user when the password verifies, else None
authenticate_user(us, email, password) ==
    LET i == get_user_by_email(us, email)
    IN  IF i # 0 /\ us[i].password = get_password_hash(password) THEN i ELSE 0

\* Auths.authenticate_user_by_trusted_header
authenticate_user_by_trusted_header(us, email) == get_user_by_email(us, email)

\* Users.update_user_role_by_id
update_user_role_by_id(us, id, role) == [us EXCEPT ![id].role = role]

\* Users.update_user_by_id(id, {"extra_sso": ...})
update_user_by_id(us, id, extra_sso) == [us EXCEPT ![id].extra_sso = extra_sso]

\* Users.update_user_api_key_by_id
update_user_api_key_by_id(us, id, key) == [us EXCEPT ![id].api_key = key]

\* Users.get_user_api_key_by_id
get_user_api_key_by_id(us, id) == us[id].api_key

\* Depends(get_admin_user): the caller holds a session of a user with role admin
get_admin_user(us, id) == id \in 1..Len(us) /\ us[id].role = "admin"

\* Depends(get_current_user): the caller holds a session of an existing user
get_current_user(us, id) == id \in 1..Len(us)


----------------------------------------------------------------------------
(* Responses *)

HTTPException(status, detail) ==
    [status |-> status, detail |-> detail, id |-> 0, email |-> EmptyStr, role |-> "",
     extra_sso |-> EmptyStr, token |-> NoToken, api_key |-> 0]

\* the session payload {token, token_type, id, email, name, role, profile_image_url, extra_sso}
SigninResponse(user, extra_sso) ==
    [status |-> 200, detail |-> "", id |-> user.id, email |-> user.email,
     role |-> user.role, extra_sso |-> extra_sso, token |-> create_token(user.id),
     api_key |-> 0]

\* a plain 200 response (response_model=bool, a role, an ApiKey)
Ok(detail, api_key) ==
    [status |-> 200, detail |-> detail, id |-> 0, email |-> EmptyStr, role |-> "",
     extra_sso |-> EmptyStr, token |-> NoToken, api_key |-> api_key]

NoResponse == HTTPException(0, "")

----------------------------------------------------------------------------
(* Frames: one request being handled *)

IdleFrame ==
    [op |-> "idle", pc |-> "idle", caller |-> 0, email |-> EmptyStr, password |-> "",
     role |-> "", header |-> NoHeader, access_token |-> 0,
     sso_ok |-> TRUE, key |-> 0, role_required |-> FALSE,
     su_email |-> EmptyStr, su_password |-> "", su_extra |-> EmptyStr,
     su_num_users |-> 0, su_role |-> "",
     uid |-> 0, webhooks |-> 0, resp |-> NoResponse]

Goto(us, f, pc) == [users |-> us, f |-> [f EXCEPT !.pc = pc]]

Respond(us, f, r) == [users |-> us, f |-> [f EXCEPT !.pc = "done", !.resp = r]]

\* raise HTTPException: signin_callback catches whatever its body raises
\* (lines 450-452); signin and signup let it through
Raise(us, f, e) ==
    Respond(us, f, IF f.op = "signin_callback"
                   THEN HTTPException(500, "Error in signin_callback")
                   ELSE e)

----------------------------------------------------------------------------
(* signup, lines 158-220 *)

\* faulty variant of signup_check: the lookup without .lower()
signup_check_exact(us, email) ==
    IF ~ENABLE_SIGNUP THEN HTTPException(403, "ACCESS_PROHIBITED")
    ELSE IF ~validate_email_format(lower(email))
         THEN HTTPException(400, "INVALID_EMAIL_FORMAT")
    ELSE IF get_user_by_email(us, email) # 0
         THEN HTTPException(400, "EMAIL_TAKEN")
    ELSE Ok("", 0)

\* lines 160-171: the three rejections, in the order the handler tests them
signup_check(us, email) ==
    IF ~ENABLE_SIGNUP THEN HTTPException(403, "ACCESS_PROHIBITED")
    ELSE IF ~validate_email_format(lower(email))
         THEN HTTPException(400, "INVALID_EMAIL_FORMAT")
    ELSE IF get_user_by_email(us, lower(email)) # 0
         THEN HTTPException(400, "EMAIL_TAKEN")
    ELSE Ok("", 0)

\* faulty variant of signup_role: no first-user rule
signup_role_default(num_users) == DEFAULT_USER_ROLE

\* lines 174-178
signup_role(num_users) == IF num_users = 0 THEN "admin" ELSE DEFAULT_USER_ROLE

\* faulty variant of signup_insert: extra_sso not passed on
signup_insert_no_extra(us, f) ==
    insert_new_auth(us, lower(f.su_email), get_password_hash(f.su_password),
                    EmptyStr, f.su_role)

\* faulty variant of signup_insert: the count read again inside the insert, the two as
\* one store transaction
signup_insert_recount(us, f) ==
    insert_new_auth(us, lower(f.su_email), get_password_hash(f.su_password),
                    f.su_extra, signup_role(get_num_users(us)))

\* lines 179-187
signup_insert(us, f) ==
    insert_new_auth(us, lower(f.su_email), get_password_hash(f.su_password),
                    f.su_extra, f.su_role)

\* lines 196-205: post_webhook when a webhook URL is configured
signup_webhook(f) == IF WEBHOOK_URL THEN f.webhooks + 1 ELSE f.webhooks

\* where a finished signup call returns to: its own response (207-216), or the
\* statement after "await signup(...)" in signin (129) and signin_callback (421)
signup_return(us, f) ==
    LET user == us[Len(us)]
        g    == [f EXCEPT !.webhooks = signup_webhook(f)]
    IN  CASE f.op = "signin"          -> Goto(us, g, "si_auth")
          [] f.op = "signin_callback" -> Goto(us, g, "cb_auth")
          [] OTHER                    -> Respond(us, g, SigninResponse(user, EmptyStr))

signup_step(us, f) ==
    CASE f.pc = "su_lookup" ->
            IF signup_check(us, f.su_email).status # 200
            THEN Raise(us, f, signup_check(us, f.su_email))
            ELSE Goto(us, f, "su_count")
      [] f.pc = "su_count" ->
            Goto(us, [f EXCEPT !.su_num_users = get_num_users(us),
                               !.su_role = signup_role(get_num_users(us))], "su_insert")
      [] f.pc = "su_insert" ->
            signup_return(signup_insert(us, f), f)

----------------------------------------------------------------------------
(* add_user, lines 228-266 *)

\* lines 231-237
add_user_check(us, email) ==
    IF ~validate_email_format(lower(email))
    THEN HTTPException(400, "INVALID_EMAIL_FORMAT")
    ELSE IF get_user_by_email(us, lower(email)) # 0
         THEN HTTPException(400, "EMAIL_TAKEN")
    ELSE Ok("", 0)

\* lines 242-249: five positional arguments, so form_data.role arrives in the
\* fifth parameter of insert_new_auth, extra_sso, and the sixth, role, is not
\* passed.  Auths lies outside this part of the repository: either role has a
\* default ("pending", as upstream) or the call raises TypeError, which line
\* 265 turns into a 500.
add_user_insert(us, f) ==
    IF ~f.role_required
    THEN insert_new_auth(us, lower(f.email), get_password_hash(f.password),
                         Str(f.role), "pending")
    ELSE us

add_user_step(us, f) ==
    CASE f.pc = "au_lookup" ->
            IF add_user_check(us, f.email).status # 200
            THEN Raise(us, f, add_user_check(us, f.email))
            ELSE Goto(us, f, "au_insert")
      [] f.pc = "au_insert" ->
            LET us2 == add_user_insert(us, f)
            IN  IF ~f.role_required
                THEN Respond(us2, f, SigninResponse(us2[Len(us2)], EmptyStr))
                ELSE Raise(us2, f, HTTPException(500, "DEFAULT"))

----------------------------------------------------------------------------
(* signin, lines 115-150 *)

\* line 121
trusted_email(f) == lower(f.header)

\* faulty variant of signin_authenticate: the form's credentials in trusted-header mode too
signin_authenticate_form(us, f) == authenticate_user(us, lower(f.email), f.password)

\* lines 129-131: the user the request authenticates as, 0 for None
signin_authenticate(us, f) ==
    IF WEBUI_AUTH_TRUSTED_EMAIL_HEADER
    THEN authenticate_user_by_trusted_header(us, trusted_email(f))
    ELSE authenticate_user(us, lower(f.email), f.password)

\* lines 133-150
signin_respond(us, f) ==
    IF signin_authenticate(us, f) # 0
    THEN Respond(us, f, SigninResponse(us[signin_authenticate(us, f)], EmptyStr))
    ELSE Raise(us, f, HTTPException(400, "INVALID_CRED"))

\* lines 122-128: whether the trusted email has to be provisioned
signin_needs_signup(us, f) == get_user_by_email(us, lower(trusted_email(f))) = 0

signin_step(us, f) ==
    CASE f.pc = "si_start" ->
            IF ~WEBUI_AUTH_TRUSTED_EMAIL_HEADER THEN signin_respond(us, f)
            ELSE IF f.header = NoHeader
                 THEN Raise(us, f, HTTPException(400, "INVALID_TRUSTED_HEADER"))
            ELSE IF signin_needs_signup(us, f)
                 THEN Goto(us, [f EXCEPT !.su_email = trusted_email(f),
                                         !.su_password = uuid4,
                                         !.su_extra = EmptyStr], "su_lookup")
            ELSE Goto(us, f, "si_auth")
      [] f.pc = "si_auth" -> signin_respond(us, f)

----------------------------------------------------------------------------
(* signin_callback, lines 396-452 *)

\* lines 403-405: what sso.verify_and_process yields, access token attached
sso_user(f) == [email |-> f.email, access_token |-> f.access_token]

\* line 406
sso_user_json_str(f) == json_dumps(sso_user(f))

\* lines 422-426
callback_role(num_users) == IF num_users = 0 THEN "admin" ELSE "user"

\* faulty variant of callback_update: the role recomputed for a known user too
callback_update_role(us, f) ==
    update_user_role_by_id(update_user_by_id(us, f.uid, sso_user_json_str(f)),
                           f.uid, "user")

\* lines 431-433
callback_update(us, f) == update_user_by_id(us, f.uid, sso_user_json_str(f))

\* lines 435-449
callback_respond(us, f) == Respond(us, f, SigninResponse(us[f.uid], us[f.uid].extra_sso))

signin_callback_step(us, f) ==
    CASE f.pc = "cb_lookup" ->
            IF ~f.sso_ok THEN Raise(us, f, HTTPException(500, "Error in signin_callback"))
            ELSE IF get_user_by_email(us, lower(f.email)) = 0
                 THEN Goto(us, [f EXCEPT !.su_email = f.email,
                                         !.su_password = uuid4,
                                         !.su_extra = sso_user_json_str(f)], "su_lookup")
            ELSE Goto(us, [f EXCEPT !.uid = get_user_by_email(us, lower(f.email))],
                      "cb_update")
      [] f.pc = "cb_auth" ->
            Goto(us, [f EXCEPT !.uid = authenticate_user_by_trusted_header(
                                           us, lower(f.email))], "cb_count")
      [] f.pc = "cb_count" ->
            Goto(us, [f EXCEPT !.su_role = callback_role(get_num_users(us))], "cb_setrole")
      [] f.pc = "cb_setrole" ->
            callback_respond(update_user_role_by_id(us, f.uid, f.su_role), f)
      [] f.pc = "cb_update" ->
            callback_respond(callback_update(us, f), f)

----------------------------------------------------------------------------
(* API key, lines 344-372 *)

\* lines 345-353: f.key is what create_api_key() drew
create_api_key_(us, f) ==
    Respond(update_user_api_key_by_id(us, f.caller, f.key), f, Ok("", f.key))

\* faulty variant of delete_api_key: answers without clearing the key
delete_api_key_kept(us, f) == Respond(us, f, Ok("true", 0))

\* lines 358-360
delete_api_key(us, f) ==
    Respond(update_user_api_key_by_id(us, f.caller, 0), f, Ok("true", 0))

\* lines 365-372
get_api_key(us, f) ==
    IF get_user_api_key_by_id(us, f.caller) # 0
    THEN Respond(us, f, Ok("", get_user_api_key_by_id(us, f.caller)))
    ELSE Raise(us, f, HTTPException(404, "API_KEY_NOT_FOUND"))

----------------------------------------------------------------------------
(* One store call of a request, and a request run to its response *)

Step(us, f) ==
    CASE f.pc \in {"su_lookup", "su_count", "su_insert"} -> signup_step(us, f)
      [] f.pc \in {"au_lookup", "au_insert"}             -> add_user_step(us, f)
      [] f.pc \in {"si_start", "si_auth"}                -> signin_step(us, f)
      [] f.pc \in {"cb_lookup", "cb_auth", "cb_count", "cb_setrole", "cb_update"}
                                                         -> signin_callback_step(us, f)
      [] f.pc = "ak_create"                              -> create_api_key_(us, f)
      [] f.pc = "ak_delete"                              -> delete_api_key(us, f)
      [] f.pc = "ak_get"                                 -> get_api_key(us, f)

RECURSIVE Run(_, _)
Run(us, f) ==
    IF f.pc = "done" THEN [users |-> us, f |-> f]
    ELSE LET r == Step(us, f) IN Run(r.users, r.f)

----------------------------------------------------------------------------
(* Requests *)

SignupRequest(email, password) ==
    [IdleFrame EXCEPT !.op = "signup", !.pc = "su_lookup", !.email = email,
                      !.password = password, !.su_email = email,
                      !.su_password = password, !.su_extra = EmptyStr]

AddUserRequest(email, password, role, role_required) ==
    [IdleFrame EXCEPT !.op = "add_user", !.pc = "au_lookup",
                      !.email = email, !.password = password, !.role = role,
                      !.role_required = role_required]

SigninRequest(email, password, header) ==
    [IdleFrame EXCEPT !.op = "signin", !.pc = "si_start", !.email = email,
                      !.password = password, !.header = header]

SigninCallbackRequest(email, access_token, sso_ok) ==
    [IdleFrame EXCEPT !.op = "signin_callback", !.pc = "cb_lookup", !.email = email,
                      !.access_token = access_token, !.sso_ok = sso_ok]

ApiKeyRequest(op, pc, caller, key) ==
    [IdleFrame EXCEPT !.op = op, !.pc = pc, !.caller = caller, !.key = key]

\* a finished admin request on the configuration
ConfigRequest(op, detail) ==
    [IdleFrame EXCEPT !.op = op, !.pc = "done", !.resp = Ok(detail, 0)]

\* the history variable after frame f finished over store us
Issued(iss, us, f) ==
    LET grown == [i \in 1..Len(us) |-> IF i <= Len(iss) THEN iss[i] ELSE 0]
    IN  IF f.pc = "done" /\ f.resp.status = 200 /\ f.op = "create_api_key"
        THEN [grown EXCEPT ![f.caller] = f.resp.api_key]
        ELSE IF f.pc = "done" /\ f.resp.status = 200 /\ f.op = "delete_api_key"
             THEN [grown EXCEPT ![f.caller] = 0]
        ELSE grown

----------------------------------------------------------------------------
(* Sequential specifications: a handler is one action *)

ConfigInit ==
    /\ ENABLE_SIGNUP \in BOOLEAN
    /\ DEFAULT_USER_ROLE \in Roles
    /\ WEBUI_AUTH_TRUSTED_EMAIL_HEADER \in BOOLEAN
    /\ WEBHOOK_URL \in BOOLEAN

Empty ==
    /\ users = <<>>
    /\ frames = [s \in Slots |-> IdleFrame]
    /\ issued = <<>>

\* the request most recently answered
last == frames[1]

\* no request is in flight: the one before has been answered
Answered == last.pc \in {"idle", "done"}

Handle(f) ==
    LET r == Run(users, f)
    IN  /\ users' = r.users
        /\ frames' = [frames EXCEPT ![1] = r.f]
        /\ issued' = Issued(issued, r.users, r.f)
        /\ UNCHANGED config

Signup ==
    /\ Answered
    /\ \E email \in Emails, password \in Passwords :
            Handle(SignupRequest(email, password))

AddUser ==
    /\ Answered
    /\ \E caller \in 1..Len(users) : get_admin_user(users, caller)
    /\ \E email \in Emails, password \in Passwords, role \in Roles, role_required \in BOOLEAN :
            Handle(AddUserRequest(email, password, role, role_required))

Signin ==
    /\ Answered
    /\ \E email \in Emails, password \in SigninPasswords,
          header \in Emails \cup {NoHeader} :
            Handle(SigninRequest(email, password, header))

SigninCallback ==
    /\ Answered
    /\ \E email \in Emails, access_token \in AccessTokens, sso_ok \in BOOLEAN :
            Handle(SigninCallbackRequest(email, access_token, sso_ok))

CreateApiKey ==
    \E caller \in 1..Len(users), key \in ApiKeys :
        /\ Answered
        /\ get_current_user(users, caller)
        /\ Handle(ApiKeyRequest("create_api_key", "ak_create", caller, key))

DeleteApiKey ==
    \E caller \in 1..Len(users) :
        /\ Answered
        /\ get_current_user(users, caller)
        /\ Handle(ApiKeyRequest("delete_api_key", "ak_delete", caller, 0))

GetApiKey ==
    \E caller \in 1..Len(users) :
        /\ Answered
        /\ get_current_user(users, caller)
        /\ Handle(ApiKeyRequest("get_api_key", "ak_get", caller, 0))

\* toggle_sign_up, lines 279-282
ToggleSignUp ==
    /\ Answered
    /\ \E caller \in 1..Len(users) : get_admin_user(users, caller)
    /\ ENABLE_SIGNUP' = ~ENABLE_SIGNUP
    /\ frames' = [frames EXCEPT ![1] = ConfigRequest("toggle_sign_up", "")]
    /\ UNCHANGED <<users, issued, DEFAULT_USER_ROLE, WEBUI_AUTH_TRUSTED_EMAIL_HEADER,
                   WEBHOOK_URL>>

\* update_default_user_role, lines 299-305
UpdateDefaultUserRole ==
    /\ Answered
    /\ \E caller \in 1..Len(users) : get_admin_user(users, caller)
    /\ \E role \in Roles \cup {"root"} :
        /\ DEFAULT_USER_ROLE' = IF role \in {"pending", "user", "admin"}
                                THEN role ELSE DEFAULT_USER_ROLE
        /\ frames' = [frames EXCEPT ![1] =
                        ConfigRequest("update_default_user_role", DEFAULT_USER_ROLE')]
    /\ UNCHANGED <<users, issued, ENABLE_SIGNUP, WEBUI_AUTH_TRUSTED_EMAIL_HEADER,
                   WEBHOOK_URL>>

\* password sign-up and admin user management
Init == ConfigInit /\ Empty /\ ~WEBUI_AUTH_TRUSTED_EMAIL_HEADER

Next ==
    \/ Signup
    \/ AddUser
    \/ ToggleSignUp
    \/ UpdateDefaultUserRole

Spec == Init /\ [][Next]_vars

\* federated login beside password sign-up
InitSso == ConfigInit /\ Empty /\ ~WEBUI_AUTH_TRUSTED_EMAIL_HEADER /\ WEBHOOK_URL

NextSso ==
    \/ Signup
    \/ SigninCallback
    \/ ToggleSignUp
    \/ UpdateDefaultUserRole

SpecSso == InitSso /\ [][NextSso]_vars

\* sign-in, with and without trusted-header mode
InitSignin == ConfigInit /\ Empty /\ WEBHOOK_URL

NextSignin ==
    \/ Signup
    \/ Signin
    \/ ToggleSignUp
    \/ UpdateDefaultUserRole

SpecSignin == InitSignin /\ [][NextSignin]_vars

\* API keys
InitApiKey == ConfigInit /\ Empty /\ ~WEBUI_AUTH_TRUSTED_EMAIL_HEADER /\ WEBHOOK_URL

NextApiKey ==
    \/ Signup
    \/ CreateApiKey
    \/ DeleteApiKey
    \/ GetApiKey

SpecApiKey == InitApiKey /\ [][NextApiKey]_vars

----------------------------------------------------------------------------
(* Concurrent specification: the workers share the store, and a step is one   *)
(* store call of one request.  Each slot handles one sign-up; the store       *)
(* starts empty.                                                              *)

InitConc == ConfigInit /\ Empty /\ ~WEBUI_AUTH_TRUSTED_EMAIL_HEADER /\ WEBHOOK_URL

BeginSignup(s) ==
    /\ frames[s].op = "idle"
    /\ \E email \in Emails, password \in Passwords :
            frames' = [frames EXCEPT ![s] = SignupRequest(email, password)]
    /\ UNCHANGED <<users, issued, config>>

StepFrame(s) ==
    /\ frames[s].pc \notin {"idle", "done"}
    /\ LET r == Step(users, frames[s])
       IN  /\ users' = r.users
           /\ frames' = [frames EXCEPT ![s] = r.f]
           /\ issued' = Issued(issued, r.users, r.f)
    /\ UNCHANGED config

NextConc ==
    \E s \in Slots :
        \/ BeginSignup(s)
        \/ StepFrame(s)

SpecConc == InitConc /\ [][NextConc]_vars

----------------------------------------------------------------------------
(* Properties *)

\* email is, case-insensitively, the email of a user of store us
Registered(us, email) ==
    \E i \in 1..Len(us) : lower(us[i].email) = lower(email)

WellFormed(email) == validate_email_format(lower(email))

\* the record a step appended to the store
Created == users'[Len(users')]

\* the step appended exactly one record and left the others as they were
OneCreated == Len(users') = Len(users) + 1 /\ SubSeq(users', 1, Len(users)) = users

\* a sign-up request that passes the three rejections is answered in this step
SignupAccepted ==
    /\ last'.op = "signup"
    /\ ENABLE_SIGNUP
    /\ WellFormed(last'.email)
    /\ ~Registered(users, last'.email)

\* C1 as claimed: a sign-up with a well-formed, unregistered email creates a
\* user whose role is admin if and only if the store was empty before the call.
C1_AdminIffEmpty ==
    [][SignupAccepted =>
        /\ OneCreated
        /\ (Created.role = "admin" <=> Len(users) = 0)]_vars

\* C1 amended: the created user's role is admin if and only if the store was
\* empty before the call or the configured default role is admin.
C1_AdminIffEmptyOrDefault ==
    [][SignupAccepted =>
        /\ OneCreated
        /\ Created.email = lower(last'.email)
        /\ last'.resp.status = 200
        /\ last'.resp.role = Created.role
        /\ (Created.role = "admin" <=> (Len(users) = 0 \/ DEFAULT_USER_ROLE = "admin"))]_vars

\* C1 witness: a second user signed up while the default role was admin.
C1_Witness ==
    /\ last.op = "signup"
    /\ last.resp.status = 200
    /\ last.resp.id = 2
    /\ Len(users) = 2
    /\ users[2].role = "admin"
    /\ DEFAULT_USER_ROLE = "admin"

\* C3 as claimed: a sign-up whose email is, case-insensitively, that of an
\* existing user always fails with EmailTaken and leaves the records as they were.
C3_TakenAlways ==
    [][(last'.op = "signup" /\ Registered(users, last'.email)) =>
        /\ last'.resp.detail = "EMAIL_TAKEN"
        /\ users' = users]_vars

\* C3 amended: such a sign-up always fails and leaves the records as they
\* were; it fails with EmailTaken when sign-up is enabled, and with
\* SignupDisabled (access prohibited) when sign-up is disabled.
C3_TakenWhenEnabled ==
    [][(last'.op = "signup" /\ Registered(users, last'.email)) =>
        /\ users' = users
        /\ last'.resp.status # 200
        /\ last'.resp.token = NoToken
        /\ last'.resp.detail = IF ENABLE_SIGNUP THEN "EMAIL_TAKEN" ELSE "ACCESS_PROHIBITED"]_vars

\* C3 witness: "A@x" was refused with EmailTaken because "a@x" is registered.
C3_Witness ==
    /\ last.op = "signup"
    /\ last.email = <<65, 64, 120>>
    /\ last.resp.detail = "EMAIL_TAKEN"
    /\ \E i \in 1..Len(users) : users[i].email = <<97, 64, 120>>
    /\ \A i \in 1..Len(users) : users[i].email # <<65, 64, 120>>

\* C4 as claimed: add_user by an admin with a well-formed, unregistered email
\* creates exactly one user whose stored role is the role of the request, and
\* sends no sign-up webhook.
C4_AddUserRole ==
    [][(last'.op = "add_user" /\ WellFormed(last'.email)
            /\ ~Registered(users, last'.email)) =>
        /\ OneCreated
        /\ Created.email = lower(last'.email)
        /\ Created.role = last'.role
        /\ last'.webhooks = 0]_vars

\* an SSO callback with a verified assertion is answered in this step
CallbackAnswered == last'.op = "signin_callback" /\ last'.sso_ok

\* C2 as claimed: after an SSO callback for a federated email without a local
\* user, the persisted role of the resolved user is admin when the store was
\* empty before the callback and user otherwise, and the session payload
\* carries the persisted role.
C2_FirstSsoUserAdmin ==
    [][(CallbackAnswered /\ last'.resp.status = 200
            /\ ~Registered(users, last'.email)) =>
        /\ users'[last'.resp.id].role = (IF Len(users) = 0 THEN "admin" ELSE "user")
        /\ last'.resp.role = users'[last'.resp.id].role]_vars

\* C5 as claimed: in every state of store and configuration, an SSO callback
\* whose federated email is not present locally adds exactly one record, whose
\* extra_sso is the serialized identity payload, and returns a token whose
\* subject is the new user's id.
C5_SsoCreatesAlways ==
    [][(CallbackAnswered /\ ~Registered(users, last'.email)) =>
        /\ OneCreated
        /\ Created.extra_sso = sso_user_json_str(last')
        /\ last'.resp.token = create_token(Created.id)]_vars

\* C5 amended: the same, when sign-up is enabled and the federated email is
\* well-formed.
C5_SsoCreatesWhenEnabled ==
    [][(CallbackAnswered /\ ~Registered(users, last'.email)
            /\ ENABLE_SIGNUP /\ WellFormed(last'.email)) =>
        /\ OneCreated
        /\ Created.email = lower(last'.email)
        /\ Created.extra_sso = sso_user_json_str(last')
        /\ last'.resp.status = 200
        /\ last'.resp.id = Created.id
        /\ last'.resp.token = create_token(Created.id)]_vars

\* C5 witness: the callback for "A@x" created the second user, who carries the
\* payload and is the subject of the token.
C5_Witness ==
    /\ last.op = "signin_callback"
    /\ last.email = <<65, 64, 120>>
    /\ last.resp.status = 200
    /\ Len(users) = 2
    /\ last.resp.id = 2
    /\ users[2].email = <<97, 64, 120>>
    /\ users[2].password = get_password_hash(uuid4)
    /\ users[2].extra_sso = sso_user_json_str(last)
    /\ last.resp.token = create_token(2)

\* the local user a federated or trusted email resolves to
Resolved(us, email) == get_user_by_email(us, lower(email))

\* C6: an SSO callback whose federated email, lowercased, matches a local user
\* sets that user's extra_sso to the serialized payload and leaves the user's
\* role and password hash, every other record and the number of users unchanged.
C6_SsoUpdatesExtraOnly ==
    [][(CallbackAnswered /\ Registered(users, last'.email)) =>
        /\ users' = [users EXCEPT ![Resolved(users, last'.email)].extra_sso =
                                        sso_user_json_str(last')]
        /\ last'.resp.status = 200
        /\ last'.resp.id = Resolved(users, last'.email)
        /\ last'.resp.extra_sso = sso_user_json_str(last')]_vars

\* C6 witness: a user who signed up with a password and holds a pending role
\* logged in through SSO; a second user exists.
C6_Witness ==
    /\ last.op = "signin_callback"
    /\ last.resp.status = 200
    /\ Len(users) = 2
    /\ last.resp.id = 2
    /\ users[2].password = get_password_hash("pw1")
    /\ users[2].role = "pending"
    /\ users[2].extra_sso = sso_user_json_str(last)
    /\ users[1].extra_sso # users[2].extra_sso

\* a sign-in carrying the trusted header is answered in trusted-header mode
TrustedSignin ==
    /\ last'.op = "signin"
    /\ WEBUI_AUTH_TRUSTED_EMAIL_HEADER
    /\ last'.header # NoHeader

\* a trusted sign-in whose header email is already in the store creates no
\* account and returns a session token for that user
TrustedSigninKnown ==
    (TrustedSignin /\ Registered(users, last'.header)) =>
        /\ users' = users
        /\ last'.resp.status = 200
        /\ last'.resp.email = lower(last'.header)
        /\ last'.resp.token = create_token(Resolved(users, last'.header))

\* C7 as claimed: in trusted-header mode, in every state of store and
\* configuration, a sign-in carrying the trusted header with an email not in
\* the store provisions exactly one account for the lowercased header email and
\* returns a session token for it, whatever the form contains; a later sign-in
\* with the same header creates no further account.
C7_TrustedProvisionsAlways ==
    [][/\ (TrustedSignin /\ ~Registered(users, last'.header)) =>
            /\ OneCreated
            /\ Created.email = lower(last'.header)
            /\ last'.resp.token = create_token(Created.id)
       /\ TrustedSigninKnown]_vars

\* C7 amended: the same, when sign-up is enabled and the header value is a
\* well-formed email.
C7_TrustedProvisionsWhenEnabled ==
    [][/\ (TrustedSignin /\ ~Registered(users, last'.header)
                /\ ENABLE_SIGNUP /\ WellFormed(last'.header)) =>
            /\ OneCreated
            /\ Created.email = lower(last'.header)
            /\ last'.resp.status = 200
            /\ last'.resp.id = Created.id
            /\ last'.resp.email = lower(last'.header)
            /\ last'.resp.token = create_token(Created.id)
       /\ TrustedSigninKnown]_vars

\* C7 witness: the header "A@x" provisioned the second account, "a@x", while
\* the form named another email.
C7_Witness ==
    /\ last.op = "signin"
    /\ WEBUI_AUTH_TRUSTED_EMAIL_HEADER
    /\ last.header = <<65, 64, 120>>
    /\ last.email = <<98, 64, 120>>
    /\ last.password = "pw2"
    /\ last.resp.status = 200
    /\ Len(users) = 2
    /\ last.resp.id = 2
    /\ users[2].email = <<97, 64, 120>>
    /\ users[2].password = get_password_hash(uuid4)

\* C8: getApiKey after a successful createApiKey, with no createApiKey or
\* deleteApiKey of that user in between, returns the key createApiKey returned
\* (a later createApiKey overwrites it); after deleteApiKey it fails with
\* ApiKeyNotFound; the API-key operations of one user leave the keys of the
\* others as they were.
C8_ApiKeyLifecycle ==
    /\ Len(issued) = Len(users)
    /\ \A i \in 1..Len(users) : get_user_api_key_by_id(users, i) = issued[i]
    /\ last.op = "get_api_key" =>
            IF issued[last.caller] # 0
            THEN last.resp.status = 200 /\ last.resp.api_key = issued[last.caller]
            ELSE last.resp.status = 404 /\ last.resp.detail = "API_KEY_NOT_FOUND"

\* C8 witness: the second user got back the key it created last, while the
\* first user holds another key.
C8_Witness ==
    /\ last.op = "get_api_key"
    /\ last.caller = 2
    /\ last.resp.status = 200
    /\ last.resp.api_key = 2
    /\ Len(users) = 2
    /\ issued = <<1, 2>>

\* C9 as claimed: under every interleaving of concurrent requests that create
\* users, no two user records have the same lowercased email (of two
\* concurrent sign-ups with one email, the loser creates no record).
C9_NoDuplicateEmail ==
    \A i, j \in 1..Len(users) :
        i # j => lower(users[i].email) # lower(users[j].email)

\* a sign-up that a slot has answered with the session payload
SignedUp(s) ==
    /\ frames[s].op = "signup"
    /\ frames[s].pc = "done"
    /\ frames[s].resp.status = 200

\* C10: the role of a user that signup creates is decided by the user count
\* the request read, not by the store at the time of its insert: the user is
\* admin when that count was 0, also when another sign-up has inserted since,
\* and has the default role otherwise.  Two sign-ups on an empty store can
\* therefore both read 0 and both create an admin (C10_Witness).
C10_RoleFromCountRead ==
    \A s \in Slots :
        SignedUp(s) =>
            /\ frames[s].resp.id \in 1..Len(users)
            /\ users[frames[s].resp.id].email = lower(frames[s].email)
            /\ users[frames[s].resp.id].role =
                    (IF frames[s].su_num_users = 0 THEN "admin" ELSE DEFAULT_USER_ROLE)

\* C10 witness: two sign-ups with different emails both read a count of 0 and
\* both created an admin, though the default role is not admin.
C10_Witness ==
    /\ DEFAULT_USER_ROLE # "admin"
    /\ SignedUp(1) /\ SignedUp(2)
    /\ frames[1].su_num_users = 0 /\ frames[2].su_num_users = 0
    /\ Len(users) = 2
    /\ users[1].email # users[2].email
    /\ users[1].role = "admin" /\ users[2].role = "admin"

=============================================================================
